---- MODULE Spec2Model ----
(***************************************************************************)
(* A model of the task store of sqlite_practice: the Task entity mapper    *)
(* (models/task.py), the TaskRepository over one sqlite3 connection        *)
(* (repositories/task_repository.py), the TaskService on top of it         *)
(* (services/task_service.py) and the connection's life cycle              *)
(* (core/db_manager.py).                                                   *)
(*                                                                         *)
(* The sqlite3 connection is modelled by what the repository relies on:    *)
(* statements are prepared (failing on a closed connection, a missing      *)
(* table or an unknown column), a data-changing statement implicitly       *)
(* begins a transaction, rows violating NOT NULL are rejected, commit      *)
(* makes the connection's view durable and rollback discards it.           *)
(***************************************************************************)
EXTENDS Integers, Sequences, FiniteSets, TLC

\* ------------------------------------------------------------------ bounds

\* identities the AUTOINCREMENT key may hand out in one behaviour
MaxId == 2
\* ticks of the wall clock (datetime.now / CURRENT_TIMESTAMP) after the first
MaxClock == 1
\* entities in one insert_many call, items in one create_tasks_batch call
MaxBatch == 2
\* connect() is called at most MaxHandles times after the first
MaxHandles == 2

\* ------------------------------------------------------- values and fields

\* Python's None / SQL NULL for text and blob values
NULL == "<NULL>"
\* None for task_id (identities start at 1)
NoId == 0
\* None for a timestamp (the clock starts at 1)
NoTime == 0
\* None for a date; a date string YYYY-MM-DD is modelled as <<Y, M, D>>
NoDate == << >>

DefaultPriority == 3
MinPriority == 1
MaxPriority == 5

\* the dataclass fields of Task, and the columns of table tasks
Fields == {"task_id", "title", "description", "priority", "due_date",
           "is_completed", "attachment", "created_at", "last_updated"}
Columns == Fields

\* __post_init__: created_at is set from the clock when it was not given
PostInit(t, now) ==
    [t EXCEPT !.created_at = IF @ = NoTime THEN now ELSE @]

\* Task(...): the dataclass constructor with its defaults; kw is the
\* keyword arguments given (a function from field names to values). The
\* entity is built only when kw names a title (see TaskInitError)
FieldDefault(f) ==
    CASE f = "priority"     -> DefaultPriority
      [] f = "is_completed" -> FALSE
      [] f = "task_id"      -> NoId
      [] f = "due_date"     -> NoDate
      [] f = "created_at"   -> NoTime
      [] f = "last_updated" -> NoTime
      [] OTHER              -> NULL

Task(kw, now) ==
    PostInit([f \in Fields |-> IF f \in DOMAIN kw THEN kw[f] ELSE FieldDefault(f)],
             now)

\* title is the one field declared without a default: the generated
\* __init__ raises TypeError when no title is among the keyword arguments,
\* and then no Task is built
TaskInitError(kw) ==
    IF "title" \in DOMAIN kw THEN "" ELSE "TypeError"

\* to_dict writing 0 for the boolean whatever its value
to_dict_flag_lost(t) ==
    LET d == [f \in Fields |-> IF f = "is_completed" THEN 0 ELSE t[f]]
    IN  IF t.task_id = NoId
          THEN [f \in Fields \ {"task_id"} |-> d[f]]
          ELSE d

\* to_dict leaving out every optional field that is unset
to_dict_sparse(t) ==
    LET unset == {f \in Fields :
                    CASE f \in {"description", "attachment"} -> t[f] = NULL
                      [] f = "due_date"     -> t[f] = NoDate
                      [] f = "last_updated" -> t[f] = NoTime
                      [] f = "task_id"      -> t[f] = NoId
                      [] OTHER              -> FALSE}
    IN  [f \in Fields \ unset |-> IF f = "is_completed"
                                    THEN (IF t.is_completed THEN 1 ELSE 0)
                                    ELSE t[f]]

\* Task.to_dict: every field, the boolean as 0/1, task_id dropped when unset
to_dict(t) ==
    LET d == [f \in Fields |-> IF f = "is_completed"
                                 THEN (IF t.is_completed THEN 1 ELSE 0)
                                 ELSE t[f]]
    IN  IF t.task_id = NoId
          THEN [f \in Fields \ {"task_id"} |-> d[f]]
          ELSE d

\* Task.from_row on a sqlite3.Row: every key of the row becomes a keyword
\* argument, is_completed through bool()
from_row(row, now) ==
    Task([k \in DOMAIN row |-> IF k = "is_completed" THEN row[k] # 0 ELSE row[k]],
         now)

\* ------------------------------------------------------------------- state

VARIABLES
    connOpen,     \* DatabaseManager.conn / TaskRepository.conn is open
    tableExists,  \* table tasks exists in the database
    committed,    \* the durable database: [rows, seq]
    working,      \* the connection's view: committed plus the open transaction
    inTx,         \* sqlite3.Connection.in_transaction
    clock,        \* the wall clock
    last,         \* the last operation: its arguments and how it ended
    schema,       \* table name -> the column definitions it was created with
    handles       \* the connections DatabaseManager.connect has opened:
                  \* [opened: how many, open: those not closed]; self.conn is
                  \* the one opened last

vars == <<connOpen, tableExists, committed, working, inTx, clock, last,
          schema, handles>>

\* the connection the repository was constructed with: the first one opened
RepoHandle == 1

\* rows: task_id -> stored row; seq: the AUTOINCREMENT counter (sqlite_sequence)
EmptyDb == [rows |-> << >>, seq |-> 0]

\* the return values of the operations: None, an int, a bool, a list
RetNone == [kind |-> "none", n |-> 0, b |-> FALSE, l |-> << >>]
RetInt(n) == [kind |-> "int", n |-> n, b |-> FALSE, l |-> << >>]
RetBool(b) == [kind |-> "bool", n |-> 0, b |-> b, l |-> << >>]
RetList(l) == [kind |-> "list", n |-> 0, b |-> FALSE, l |-> l]
RetTask(t) == [kind |-> "task", n |-> 0, b |-> FALSE, l |-> <<t>>]

NoTask == [f \in Fields |-> FieldDefault(f)]

\* --------------------------------------------------------- the sqlite3 store

\* what a column holds when an INSERT does not name it (create_table's DEFAULTs)
ColumnDefault(c, now) ==
    CASE c = "priority"     -> DefaultPriority
      [] c = "is_completed" -> 0
      [] c = "created_at"   -> now
      [] c = "last_updated" -> NoTime
      [] c = "due_date"     -> NoDate
      [] OTHER              -> NULL

\* preparing a statement over columns cols: the sqlite3.Error it raises, or ""
PrepareError(cols) ==
    IF ~connOpen THEN "ProgrammingError"
    ELSE IF ~tableExists THEN "OperationalError"
    ELSE IF ~(cols \subseteq Columns) THEN "OperationalError"
    ELSE ""

\* title TEXT NOT NULL
ViolatesNotNull(row) == row.title = NULL

\* the row an INSERT with field map d stores
InsertedRow(d, now) ==
    [c \in Columns \ {"task_id"} |->
        IF c \in DOMAIN d THEN d[c] ELSE ColumnDefault(c, now)]

\* a statement that failed in preparation: nothing began, nothing changed
Unprepared(k, e) ==
    [err |-> e, working |-> k.working, inTx |-> k.inTx,
     lastrowid |-> 0, rowcount |-> 0]

\* the rows of ds inserted one after the other, a rejected one left out
RECURSIVE InsertRowsSkipRejected(_, _, _, _)
InsertRowsSkipRejected(work, ds, now, n) ==
    IF ds = << >> THEN [err |-> "", working |-> work, rowcount |-> n]
    ELSE LET row == InsertedRow(Head(ds), now)
             id == work.seq + 1
         IN  IF ViolatesNotNull(row)
               THEN InsertRowsSkipRejected(work, Tail(ds), now, n)
               ELSE InsertRowsSkipRejected(
                        [rows |-> work.rows @@ (id :> row), seq |-> id],
                        Tail(ds), now, n + 1)

\* the rows of ds inserted one after the other, stopping at the first rejected
RECURSIVE InsertRows(_, _, _, _)
InsertRows(work, ds, now, n) ==
    IF ds = << >> THEN [err |-> "", working |-> work, rowcount |-> n]
    ELSE LET row == InsertedRow(Head(ds), now)
             id == work.seq + 1
         IN  IF ViolatesNotNull(row)
               THEN [err |-> "IntegrityError", working |-> work, rowcount |-> n]
               ELSE InsertRows([rows |-> work.rows @@ (id :> row), seq |-> id],
                               Tail(ds), now, n + 1)

\* cursor.executemany("INSERT INTO tasks (cols) VALUES (?, ...)", ds)
ExecInsertMany(k, cols, ds, now) ==
    LET pe == PrepareError(cols)
        r == InsertRows(k.working, ds, now, 0)
    IN  IF pe # "" THEN Unprepared(k, pe)
        ELSE [err |-> r.err, working |-> r.working, inTx |-> TRUE,
              lastrowid |-> r.working.seq, rowcount |-> r.rowcount]

\* cursor.execute("INSERT INTO tasks (cols) VALUES (?, ...)", values)
ExecInsert(k, d, now) == ExecInsertMany(k, DOMAIN d, <<d>>, now)

\* the connection as the handlers see it
Conn == [committed |-> committed, working |-> working, inTx |-> inTx]

\* conn.commit() leaving the transaction open
commit_deferred(k) == k

\* conn.commit() on an open connection
commit(k) == [k EXCEPT !.committed = k.working, !.inTx = FALSE]

\* conn.rollback() doing nothing
rollback_noop(k) == k

\* conn.rollback() on an open connection
rollback(k) == [k EXCEPT !.working = k.committed, !.inTx = FALSE]

\* how a handler ends: the connection it leaves, what it returns or raises,
\* the statements it issued, the sqlite3.Error a statement of it met
Returns(k, ret, stmts) ==
    [committed |-> k.committed, working |-> k.working, inTx |-> k.inTx,
     ret |-> ret, raised |-> "", stmts |-> stmts, err |-> ""]
Raises(k, e, stmts) ==
    [committed |-> k.committed, working |-> k.working, inTx |-> k.inTx,
     ret |-> RetNone, raised |-> e, stmts |-> stmts, err |-> ""]
Caught(e, o) == [o EXCEPT !.err = e]

\* after a statement r on connection k: the connection with r's effects
After(k, r) == [k EXCEPT !.working = r.working, !.inTx = r.inTx]

\* the except handler of a mutating operation: report, conn.rollback(),
\* return the failure value; rollback itself raises on a closed connection
ExceptRollback(k, e, failure, stmts) ==
    IF connOpen THEN Caught(e, Returns(rollback(k), failure, stmts))
    ELSE Caught(e, Raises(k, "ProgrammingError", stmts))

\* ------------------------------------------------------------ TaskRepository

\* the field map without its identity key
StripId(d) == [c \in DOMAIN d \ {"task_id"} |-> d[c]]

\* TaskRepository.insert
insert(task) ==
    LET d == StripId(to_dict(task))
        r == ExecInsert(Conn, d, clock)
    IN  IF r.err = ""
          THEN Returns(commit(After(Conn, r)), RetInt(r.lastrowid), 1)
          ELSE ExceptRollback(After(Conn, r), r.err, RetNone, 1)

\* the entity object the caller holds when insert has returned: insert
\* reads the entity through to_dict and assigns to none of its attributes
entity_after_insert(task) == task

\* TaskRepository.insert_many
insert_many(tasks) ==
    IF tasks = << >> THEN Returns(Conn, RetInt(0), 0)
    ELSE LET task_dicts == [i \in 1..Len(tasks) |-> StripId(to_dict(tasks[i]))]
             columns == DOMAIN task_dicts[1]
             values == [i \in 1..Len(tasks) |->
                           [c \in columns |-> task_dicts[i][c]]]
             r == ExecInsertMany(Conn, columns, values, clock)
         IN  IF r.err = ""
               THEN Returns(commit(After(Conn, r)), RetInt(r.rowcount), 1)
               ELSE ExceptRollback(After(Conn, r), r.err, RetNone, 1)

\* an UPDATE in which the last_updated bound from the field map is kept
SetRowAsGiven(old, d, now) ==
    [c \in DOMAIN old |->
        IF c \in DOMAIN d THEN d[c]
        ELSE IF c = "last_updated" THEN now
        ELSE old[c]]

\* the row after "SET col = ?, ..., last_updated = CURRENT_TIMESTAMP": the
\* field map names last_updated too, and the later assignment is the one kept
SetRow(old, d, now) ==
    [c \in DOMAIN old |->
        IF c = "last_updated" THEN now
        ELSE IF c \in DOMAIN d THEN d[c] ELSE old[c]]

\* an UPDATE whose WHERE clause is lost: every row is written
UpdatedRowsNoWhere(rows, d, id, now) ==
    [i \in DOMAIN rows |-> SetRow(rows[i], d, now)]

\* "UPDATE tasks SET ... WHERE task_id = ?": the rows after it
UpdatedRows(rows, d, id, now) ==
    [i \in DOMAIN rows |-> IF i = id THEN SetRow(rows[i], d, now) ELSE rows[i]]

\* cursor.execute(update_sql, values)
ExecUpdate(k, d, id, now) ==
    LET pe == PrepareError(DOMAIN d \cup {"last_updated", "task_id"})
        rows == k.working.rows
        new == UpdatedRows(rows, d, id, now)
        n == IF id \in DOMAIN rows THEN 1 ELSE 0
    IN  IF pe # "" THEN Unprepared(k, pe)
        ELSE IF \E i \in DOMAIN new : ViolatesNotNull(new[i])
          THEN [err |-> "IntegrityError", working |-> k.working, inTx |-> TRUE,
                lastrowid |-> 0, rowcount |-> 0]
          ELSE [err |-> "", working |-> [k.working EXCEPT !.rows = new],
                inTx |-> TRUE, lastrowid |-> 0, rowcount |-> n]

\* an update that does not look at the identity before going to the store:
\* "WHERE task_id = NULL" matches no row
update_no_id_check(task) ==
    LET task_dict == to_dict(task)
        r == ExecUpdate(Conn, StripId(task_dict), task_dict.task_id, clock)
    IN  IF r.err = ""
          THEN Returns(commit(After(Conn, r)), RetBool(r.rowcount > 0), 1)
          ELSE ExceptRollback(After(Conn, r), r.err, RetBool(FALSE), 1)

\* TaskRepository.update
update(task) ==
    IF task.task_id = NoId THEN Returns(Conn, RetBool(FALSE), 0)
    ELSE LET task_dict == to_dict(task)
             task_id == task_dict.task_id
             r == ExecUpdate(Conn, StripId(task_dict), task_id, clock)
         IN  IF r.err = ""
               THEN Returns(commit(After(Conn, r)), RetBool(r.rowcount > 0), 1)
               ELSE ExceptRollback(After(Conn, r), r.err, RetBool(FALSE), 1)

\* a DELETE that leaves the row it names
RowsAllKept(rows, id) == rows

\* "DELETE FROM tasks WHERE task_id = ?": the rows after it
RowsWithout(rows, id) == [i \in DOMAIN rows \ {id} |-> rows[i]]

\* cursor.execute(delete_sql, (task_id,))
ExecDelete(k, id) ==
    LET pe == PrepareError({"task_id"})
        rows == k.working.rows
    IN  IF pe # "" THEN Unprepared(k, pe)
        ELSE [err |-> "", working |-> [k.working EXCEPT !.rows = RowsWithout(rows, id)],
              inTx |-> TRUE, lastrowid |-> 0,
              rowcount |-> IF id \in DOMAIN rows THEN 1 ELSE 0]

\* TaskRepository.delete
delete(task_id) ==
    LET r == ExecDelete(Conn, task_id)
    IN  IF r.err = ""
          THEN Returns(commit(After(Conn, r)), RetBool(r.rowcount > 0), 1)
          ELSE ExceptRollback(After(Conn, r), r.err, RetBool(FALSE), 1)

\* the ids of S in rowid order
RECURSIVE Ascending(_)
Ascending(S) ==
    IF S = {} THEN << >>
    ELSE LET m == CHOOSE x \in S : \A y \in S : x <= y
         IN  <<m>> \o Ascending(S \ {m})

\* a row as SELECT * returns it: every column, the key included
SelectedRow(work, id) ==
    [c \in Columns |-> IF c = "task_id" THEN id ELSE work.rows[id][c]]

\* cursor.execute("SELECT * FROM tasks [WHERE ...]") and fetchall(): ids is
\* the set of rows the WHERE clause keeps, cols the columns it names
ExecSelect(k, cols, ids) ==
    LET pe == PrepareError(cols)
        order == Ascending(ids)
    IN  IF pe # "" THEN [err |-> pe, rows |-> << >>]
        ELSE [err |-> "",
              rows |-> [i \in 1..Len(order) |-> SelectedRow(k.working, order[i])]]

\* the entities of fetched rows
Entities(rows) == [i \in 1..Len(rows) |-> from_row(rows[i], clock)]

\* TaskRepository.find_by_id
find_by_id(task_id) ==
    LET r == ExecSelect(Conn, {"task_id"}, DOMAIN working.rows \cap {task_id})
    IN  IF r.err # "" THEN Caught(r.err, Returns(Conn, RetNone, 1))
        ELSE IF r.rows = << >> THEN Returns(Conn, RetNone, 1)
        ELSE Returns(Conn, RetTask(from_row(r.rows[1], clock)), 1)

\* TaskRepository.find_all
find_all ==
    LET r == ExecSelect(Conn, {}, DOMAIN working.rows)
    IN  IF r.err # "" THEN Caught(r.err, Returns(Conn, RetList(<< >>), 1))
        ELSE Returns(Conn, RetList(Entities(r.rows)), 1)

\* whether the value bound for column c is None (the integer columns priority
\* and is_completed are always given an integer here)
IsNone(c, val) ==
    CASE c \in {"title", "description", "attachment"} -> val = NULL
      [] c = "due_date"                     -> val = NoDate
      [] c \in {"created_at", "last_updated"} -> val = NoTime
      [] c = "task_id"                      -> val = NoId
      [] OTHER                              -> FALSE

\* "col IS ?" in place of "col = ?": a NULL bound matches a NULL stored
SqlEqualsNullSafe(c, stored, val) == stored = val

\* "col = ?" bound to val: never true of a NULL on either side
SqlEquals(c, stored, val) ==
    /\ ~IsNone(c, val)
    /\ stored = val

\* find_by_criteria without its test for an empty mapping: the statement
\* ends in "WHERE" and the store refuses it
find_by_criteria_always_where(criteria) ==
    LET cols == DOMAIN criteria
        keep == IF cols \subseteq Columns
                  THEN {i \in DOMAIN working.rows :
                          \A c \in cols :
                            SqlEquals(c, SelectedRow(working, i)[c], criteria[c])}
                  ELSE {}
        r == ExecSelect(Conn, cols, keep)
    IN  IF cols = {} /\ connOpen /\ tableExists
          THEN Caught("OperationalError", Returns(Conn, RetList(<< >>), 1))
        ELSE IF r.err # "" THEN Caught(r.err, Returns(Conn, RetList(<< >>), 1))
        ELSE Returns(Conn, RetList(Entities(r.rows)), 1)

\* find_by_criteria joining its clauses with OR
find_by_criteria_any(criteria) ==
    IF DOMAIN criteria = {} THEN find_all
    ELSE LET cols == DOMAIN criteria
             keep == IF cols \subseteq Columns
                       THEN {i \in DOMAIN working.rows :
                               \E c \in cols :
                                 SqlEquals(c, SelectedRow(working, i)[c], criteria[c])}
                       ELSE {}
             r == ExecSelect(Conn, cols, keep)
         IN  IF r.err # "" THEN Caught(r.err, Returns(Conn, RetList(<< >>), 1))
             ELSE Returns(Conn, RetList(Entities(r.rows)), 1)

\* TaskRepository.find_by_criteria: criteria is a function column -> value
find_by_criteria(criteria) ==
    IF DOMAIN criteria = {} THEN find_all
    ELSE LET cols == DOMAIN criteria
             keep == IF cols \subseteq Columns
                       THEN {i \in DOMAIN working.rows :
                               \A c \in cols :
                                 SqlEquals(c, SelectedRow(working, i)[c], criteria[c])}
                       ELSE {}
             r == ExecSelect(Conn, cols, keep)
         IN  IF r.err # "" THEN Caught(r.err, Returns(Conn, RetList(<< >>), 1))
             ELSE Returns(Conn, RetList(Entities(r.rows)), 1)

\* whether string p occurs in string t
Contains(t, p) ==
    \E i \in 1..(Len(t) - Len(p) + 1) : SubSeq(t, i, i + Len(p) - 1) = p

\* TaskRepository.find_by_title_contains: title LIKE '%' || title_part || '%'
find_by_title_contains(title_part) ==
    LET keep == {i \in DOMAIN working.rows :
                   Contains(working.rows[i].title, title_part)}
        r == ExecSelect(Conn, {"title"}, keep)
    IN  IF r.err # "" THEN Caught(r.err, Returns(Conn, RetList(<< >>), 1))
        ELSE Returns(Conn, RetList(Entities(r.rows)), 1)

\* a column definition as PRAGMA table_info reports it
Column(name, type, notnull, dflt, pk) ==
    [name |-> name, type |-> type, notnull |-> notnull, dflt |-> dflt, pk |-> pk]

\* the columns dictionary of TaskRepository.create_table
TaskColumnDefs ==
    <<Column("task_id", "INTEGER", 0, NULL, 1),
      Column("title", "TEXT", 1, NULL, 0),
      Column("description", "TEXT", 0, NULL, 0),
      Column("priority", "INTEGER", 0, "3", 0),
      Column("due_date", "DATE", 0, NULL, 0),
      Column("is_completed", "BOOLEAN", 0, "0", 0),
      Column("attachment", "BLOB", 0, NULL, 0),
      Column("created_at", "TIMESTAMP", 0, "CURRENT_TIMESTAMP", 0),
      Column("last_updated", "TIMESTAMP", 0, NULL, 0)>>

\* the schema after "CREATE TABLE IF NOT EXISTS table_name (columns)": a
\* table that exists keeps the definitions it has
SchemaAfterCreate(table_name, columns) ==
    IF connOpen /\ columns # << >> /\ table_name \notin DOMAIN schema
      THEN schema @@ (table_name :> columns)
      ELSE schema

\* TableManager.create_table: CREATE TABLE IF NOT EXISTS, then commit; a
\* sqlite3.Error (a closed connection, an empty column list) is reported
\* and answered with False
TableManager_create_table(table_name, columns) ==
    IF ~connOpen THEN Caught("ProgrammingError", Returns(Conn, RetBool(FALSE), 1))
    ELSE IF columns = << >>
      THEN Caught("OperationalError", Returns(Conn, RetBool(FALSE), 1))
    ELSE Returns(commit(Conn), RetBool(TRUE), 1)

\* TableManager.get_table_info: the rows of PRAGMA table_info as
\* dictionaries; no rows for a table that is not there
get_table_info(table_name) ==
    IF ~connOpen THEN Caught("ProgrammingError", Returns(Conn, RetList(<< >>), 1))
    ELSE IF table_name \notin DOMAIN schema THEN Returns(Conn, RetList(<< >>), 1)
    ELSE LET cols == schema[table_name]
         IN  Returns(Conn,
                     RetList([i \in 1..Len(cols) |->
                                [cid |-> i - 1,
                                 name |-> cols[i].name,
                                 type |-> cols[i].type,
                                 notnull |-> cols[i].notnull,
                                 default_value |-> cols[i].dflt,
                                 pk |-> cols[i].pk]]),
                     1)

\* a create_table whose statement lacks IF NOT EXISTS: the store refuses it
\* when the table is there
create_table_unguarded ==
    IF ~connOpen THEN Caught("ProgrammingError", Returns(Conn, RetBool(FALSE), 1))
    ELSE IF tableExists
      THEN Caught("OperationalError", Returns(Conn, RetBool(FALSE), 1))
    ELSE Returns(commit(Conn), RetBool(TRUE), 1)

\* TaskRepository.create_table: CREATE TABLE IF NOT EXISTS, then commit; a
\* sqlite3.Error is reported and answered with False
create_table ==
    IF connOpen THEN Returns(commit(Conn), RetBool(TRUE), 1)
    ELSE Caught("ProgrammingError", Returns(Conn, RetBool(FALSE), 1))

\* --------------------------------------------------- the statement texts

\* the keys of asdict(task): the dataclass fields in declaration order
FieldOrder == <<"title", "priority", "is_completed", "task_id", "due_date",
                "attachment", "created_at", "description", "last_updated">>

\* the keys of a field map, in the order of the dict
KeysOf(d) ==
    LET Present(f) == f \in DOMAIN d
    IN  SelectSeq(FieldOrder, Present)

\* the keys of a criteria mapping in the order criteria.items() gives them
\* (one order for each set of keys)
RECURSIVE ItemsOrder(_)
ItemsOrder(S) ==
    IF S = {} THEN << >>
    ELSE LET k == CHOOSE x \in S : TRUE
         IN  <<k>> \o ItemsOrder(S \ {k})

\* sep.join(parts)
RECURSIVE Join(_, _)
Join(parts, sep) ==
    IF parts = << >> THEN ""
    ELSE IF Len(parts) = 1 THEN parts[1]
    ELSE parts[1] \o sep \o Join(Tail(parts), sep)

\* f"INSERT INTO {table_name} ({columns}) VALUES ({placeholders})"
InsertSql(d) ==
    LET keys == KeysOf(d)
    IN  "INSERT INTO tasks (" \o Join(keys, ", ") \o ") VALUES ("
          \o Join([i \in 1..Len(keys) |-> "?"], ", ") \o ")"

\* f"UPDATE {table_name} SET {set_clause} WHERE task_id = ?"
UpdateSql(d) ==
    LET keys == KeysOf(d)
    IN  "UPDATE tasks SET "
          \o Join([i \in 1..Len(keys) |-> keys[i] \o " = ?"], ", ")
          \o ", last_updated = CURRENT_TIMESTAMP" \o " WHERE task_id = ?"

\* f"SELECT * FROM {table_name} WHERE {where_clause}": each key of the
\* mapping is written into the text, each value is bound
CriteriaSql(criteria) ==
    LET keys == ItemsOrder(DOMAIN criteria)
    IN  "SELECT * FROM tasks WHERE "
          \o Join([i \in 1..Len(keys) |-> keys[i] \o " = ?"], " AND ")

\* the statement text an operation hands to cursor.execute, "" when it
\* hands none
Statement(op, arg) ==
    CASE op = "insert" -> InsertSql(StripId(to_dict(arg.task)))
      [] op = "insert_many" ->
           IF arg.tasks = << >> THEN ""
           ELSE InsertSql(StripId(to_dict(arg.tasks[1])))
      [] op = "update" ->
           IF arg.task.task_id = NoId THEN ""
           ELSE UpdateSql(StripId(to_dict(arg.task)))
      [] op = "delete" -> "DELETE FROM tasks WHERE task_id = ?"
      [] op = "find_by_id" -> "SELECT * FROM tasks WHERE task_id = ?"
      [] op = "find_all" -> "SELECT * FROM tasks"
      [] op = "find_by_criteria" ->
           IF DOMAIN arg.criteria = {} THEN "SELECT * FROM tasks"
           ELSE CriteriaSql(arg.criteria)
      [] op = "find_by_title_contains" -> "SELECT * FROM tasks WHERE title LIKE ?"
      [] OTHER -> ""

\* --------------------------------------------------------------- TaskService

\* the methods class TaskRepository defines
RepoMethods == {"create_table", "insert", "insert_many", "update", "delete",
                "find_by_id", "find_all", "find_by_criteria",
                "find_by_title_contains"}

\* a repository that answers to the names the service uses as well
RepoCallAliased(method, arg) ==
    CASE method \in {"insert", "insert_task"}          -> insert(arg)
      [] method = "insert_many"                        -> insert_many(arg)
      [] method \in {"update", "update_task"}          -> update(arg)
      [] method \in {"delete", "delete_task"}          -> delete(arg)
      [] method \in {"find_by_id", "find_task_by_id"}  -> find_by_id(arg)
      [] method \in {"find_all", "find_all_tasks"}     -> find_all
      [] method = "find_by_criteria"                   -> find_by_criteria(arg)
      [] method = "find_by_title_contains"  -> find_by_title_contains(arg)
      [] method = "create_table"                       -> create_table
      [] OTHER -> Raises(Conn, "AttributeError", 0)

\* self.task_repository.<method>(arg): the attribute lookup fails for a
\* method the class does not define
RepoCall(method, arg) ==
    IF method \notin RepoMethods THEN Raises(Conn, "AttributeError", 0)
    ELSE CASE method = "insert"           -> insert(arg)
           [] method = "insert_many"      -> insert_many(arg)
           [] method = "update"           -> update(arg)
           [] method = "delete"           -> delete(arg)
           [] method = "find_by_id"       -> find_by_id(arg)
           [] method = "find_all"         -> find_all
           [] method = "find_by_criteria" -> find_by_criteria(arg)
           [] method = "find_by_title_contains" -> find_by_title_contains(arg)
           [] OTHER                       -> create_table

\* what a service operation did: how it ended and the repository calls it made
Called(method, arg) ==
    [out |-> RepoCall(method, arg), calls |-> <<[method |-> method, arg |-> arg]>>]
NotCalled(ret) == [out |-> Returns(Conn, ret, 0), calls |-> << >>]

IsLeap(y) == (y % 4 = 0 /\ y % 100 # 0) \/ y % 400 = 0
DaysInMonth(y, m) ==
    IF m = 2 THEN (IF IsLeap(y) THEN 29 ELSE 28)
    ELSE IF m \in {4, 6, 9, 11} THEN 30 ELSE 31

\* datetime.strptime(s, '%Y-%m-%d') succeeds
ParsesAsDate(s) ==
    /\ Len(s) = 3
    /\ s[1] \in 1..9999
    /\ s[2] \in 1..12
    /\ s[3] \in 1..DaysInMonth(s[1], s[2])

\* create_task's priority check
CheckedPriority(priority) ==
    IF priority < MinPriority \/ priority > MaxPriority
      THEN DefaultPriority ELSE priority

\* create_task's date check
CheckedDate(due_date) ==
    IF due_date # NoDate /\ ~ParsesAsDate(due_date) THEN NoDate ELSE due_date

\* an emptiness test that lets the empty string through
IsEmptyTitleNoneOnly(title) == title = NULL

\* "not title"
IsEmptyTitle(title) == title = NULL \/ title = ""

\* TaskService.create_task
create_task(title, description, priority, due_date, is_completed, attachment) ==
    LET p == CheckedPriority(priority)
        dd == CheckedDate(due_date)
        task == Task([title |-> title, description |-> description,
                      priority |-> p, due_date |-> dd,
                      is_completed |-> is_completed,
                      attachment |-> attachment], clock)
    IN  IF IsEmptyTitle(title) THEN NotCalled(RetNone)
        ELSE Called("insert_task", task)

\* dict.get(key, default)
Get(d, key, default) == IF key \in DOMAIN d THEN d[key] ELSE default

\* a batch that ends at the first item without a title
RECURSIVE BatchTasksStopAtInvalid(_, _)
BatchTasksStopAtInvalid(task_data_list, now) ==
    IF task_data_list = << >> THEN << >>
    ELSE LET task_data == Head(task_data_list)
         IN  IF "title" \notin DOMAIN task_data \/ task_data.title \in {NULL, ""}
               THEN << >>
               ELSE <<Task([title |-> task_data.title,
                            description |-> NULL,
                            priority |-> DefaultPriority,
                            due_date |-> NoDate,
                            is_completed |-> FALSE,
                            attachment |-> NULL],
                           now)>>
                    \o BatchTasksStopAtInvalid(Tail(task_data_list), now)

\* the entities create_tasks_batch builds: an item without a title is skipped
RECURSIVE BatchTasks(_, _)
BatchTasks(task_data_list, now) ==
    IF task_data_list = << >> THEN << >>
    ELSE LET task_data == Head(task_data_list)
             rest == BatchTasks(Tail(task_data_list), now)
         IN  IF "title" \notin DOMAIN task_data \/ IsEmptyTitle(task_data.title)
               THEN rest
               ELSE <<Task([title |-> task_data.title,
                            description |-> Get(task_data, "description", NULL),
                            priority |-> Get(task_data, "priority", DefaultPriority),
                            due_date |-> Get(task_data, "due_date", NoDate),
                            is_completed |-> Get(task_data, "is_completed", FALSE),
                            attachment |-> Get(task_data, "attachment", NULL)],
                           now)>> \o rest

\* TaskService.create_tasks_batch
create_tasks_batch(task_data_list) ==
    LET tasks == BatchTasks(task_data_list, clock)
    IN  IF task_data_list = << >> THEN NotCalled(RetInt(0))
        ELSE IF tasks = << >> THEN NotCalled(RetInt(0))
        ELSE Called("insert_many", tasks)

\* TaskService.update_task: load the entity, set the named attributes it
\* has, hand it to the repository
update_task(task_id, kwargs) ==
    LET found == RepoCall("find_task_by_id", task_id)
        call1 == [method |-> "find_task_by_id", arg |-> task_id]
        task == found.ret.l[1]
        changed == [f \in Fields |->
                      IF f \in DOMAIN kwargs THEN kwargs[f] ELSE task[f]]
        call2 == [method |-> "update_task", arg |-> changed]
        saved == RepoCall("update_task", changed)
    IN  IF found.raised # "" THEN [out |-> found, calls |-> <<call1>>]
        ELSE IF found.ret.kind # "task"
          THEN [out |-> Returns(Conn, RetBool(FALSE), found.stmts),
                calls |-> <<call1>>]
        ELSE [out |-> [saved EXCEPT !.stmts = @ + found.stmts],
              calls |-> <<call1, call2>>]

\* TaskService.complete_task
complete_task(task_id) == update_task(task_id, [is_completed |-> TRUE])

\* TaskService.delete_task, get_task, get_all_tasks: each hands the call to
\* the repository under the name the service uses and returns its answer
delete_task(task_id) == Called("delete_task", task_id)
get_task(task_id) == Called("find_task_by_id", task_id)
get_all_tasks == Called("find_all_tasks", << >>)

\* the day before the first day of the clock
Epoch == <<2024, 1, 30>>

\* date + timedelta(days=1)
NextDay(d) ==
    IF d[3] < DaysInMonth(d[1], d[2]) THEN <<d[1], d[2], d[3] + 1>>
    ELSE IF d[2] < 12 THEN <<d[1], d[2] + 1, 1>>
    ELSE <<d[1] + 1, 1, 1>>

\* date + timedelta(days=n)
RECURSIVE AddDays(_, _)
AddDays(d, n) == IF n = 0 THEN d ELSE AddDays(NextDay(d), n - 1)

\* datetime.now() as a date; the ticks of the clock are a day apart
DateOf(now) == AddDays(Epoch, now)

\* a < b for two dates written '%Y-%m-%d' and compared as strings
DateLess(a, b) ==
    \/ a[1] < b[1]
    \/ a[1] = b[1] /\ a[2] < b[2]
    \/ a[1] = b[1] /\ a[2] = b[2] /\ a[3] < b[3]

\* the elements of a list that pass a test, in order
RECURSIVE Filtered(_, _)
Filtered(l, keep) ==
    IF l = << >> THEN << >>
    ELSE (IF Head(l) \in keep THEN <<Head(l)>> ELSE << >>)
           \o Filtered(Tail(l), keep)

\* TaskService.get_overdue_tasks
get_overdue_tasks ==
    LET today == DateOf(clock)
        all_tasks == RepoCall("find_all_tasks", << >>)
        call == [method |-> "find_all_tasks", arg |-> << >>]
        overdue == {task \in {all_tasks.ret.l[i] : i \in 1..Len(all_tasks.ret.l)} :
                      /\ task.due_date # NoDate
                      /\ DateLess(task.due_date, today)
                      /\ ~task.is_completed}
    IN  IF all_tasks.raised # "" THEN [out |-> all_tasks, calls |-> <<call>>]
        ELSE [out |-> Returns(Conn, RetList(Filtered(all_tasks.ret.l, overdue)),
                              all_tasks.stmts),
              calls |-> <<call>>]

\* TaskService.get_tasks_due_within_days
get_tasks_due_within_days(days) ==
    LET today_str == DateOf(clock)
        end_date == AddDays(today_str, days)
        all_tasks == RepoCall("find_all_tasks", << >>)
        call == [method |-> "find_all_tasks", arg |-> << >>]
        due == {task \in {all_tasks.ret.l[i] : i \in 1..Len(all_tasks.ret.l)} :
                  /\ task.due_date # NoDate
                  /\ ~DateLess(task.due_date, today_str)
                  /\ ~DateLess(end_date, task.due_date)}
    IN  IF all_tasks.raised # "" THEN [out |-> all_tasks, calls |-> <<call>>]
        ELSE [out |-> Returns(Conn, RetList(Filtered(all_tasks.ret.l, due)),
                              all_tasks.stmts),
              calls |-> <<call>>]

\* -------------------------------------------------------------- the inputs

Titles == {NULL, "", "a"}
Priorities == {0, 3, 10}
Dates == {NoDate, <<2024, 1, 15>>, <<2024, 13, 40>>}

\* the optional fields of Task and a value for each
OptionalFields == {"description", "due_date", "attachment"}
SomeValue(f) ==
    CASE f = "description" -> "d"
      [] f = "due_date"    -> <<2024, 1, 15>>
      [] OTHER             -> "blob"

\* Task(title=..., priority=..., is_completed=..., <the fields of opts>=...)
\* constructed at time `at`
NewTaskAt(title, priority, is_completed, opts, at) ==
    Task([f \in {"title", "priority", "is_completed"} \cup opts |->
            CASE f = "title"        -> title
              [] f = "priority"     -> priority
              [] f = "is_completed" -> is_completed
              [] OTHER              -> SomeValue(f)],
         at)
NewTask(title, priority, is_completed, opts) ==
    NewTaskAt(title, priority, is_completed, opts, clock)

\* the entities handed to insert: every combination of optional fields set
\* or unset, done or not; one with another priority; one that carries an
\* identity and a last_updated already; one constructed when the clock
\* started; one without a title
RepoTasks ==
    {NewTask("a", DefaultPriority, c, opts) :
        c \in BOOLEAN, opts \in SUBSET OptionalFields}
    \cup {NewTask("a", 10, FALSE, {}),
          [NewTask("a", 1, TRUE, {})
              EXCEPT !.task_id = MaxId + 1, !.last_updated = clock],
          NewTaskAt("b", DefaultPriority, TRUE, {"description"}, 1),
          NewTask(NULL, DefaultPriority, FALSE, {})}

\* the entities handed to update and to insert_many
FewTasks ==
    {NewTask("a", DefaultPriority, FALSE, {}),
     NewTask("b", 10, TRUE, OptionalFields),
     NewTask(NULL, DefaultPriority, FALSE, {})}

\* the sequences over S of length at most n
RECURSIVE SeqsUpTo(_, _)
SeqsUpTo(S, n) ==
    IF n = 0 THEN {<< >>}
    ELSE LET shorter == SeqsUpTo(S, n - 1)
         IN  shorter \cup {Append(q, x) : q \in shorter, x \in S}

\* the items of create_tasks_batch lists
BatchItems ==
    {[description |-> "d"], [title |-> ""], [title |-> "a"],
     [title |-> "a", priority |-> 10, due_date |-> <<2024, 13, 40>>]}

\* the identities asked for: every one handed out and one never handed out
Ids == 1..(MaxId + 1)

\* ------------------------------------------------------------- the actions

Init ==
    /\ connOpen = TRUE
    /\ tableExists = FALSE
    /\ committed = EmptyDb
    /\ working = EmptyDb
    /\ inTx = FALSE
    /\ clock = 1
    /\ last = [op |-> "init", arg |-> << >>, ret |-> RetNone, raised |-> "",
               stmts |-> 0, err |-> "", calls |-> << >>]
    /\ schema = << >>
    /\ handles = [opened |-> 1, open |-> {RepoHandle}]

\* an operation ending as o, having made the repository calls `calls`
Do(op, arg, o, calls) ==
    /\ o.working.seq <= MaxId
    /\ committed' = o.committed
    /\ working' = o.working
    /\ inTx' = o.inTx
    /\ last' = [op |-> op, arg |-> arg, ret |-> o.ret, raised |-> o.raised,
                stmts |-> o.stmts, err |-> o.err, calls |-> calls]
    /\ UNCHANGED <<connOpen, tableExists, clock, schema, handles>>

\* time passes
Tick ==
    /\ clock <= MaxClock
    /\ clock' = clock + 1
    /\ last' = [op |-> "tick", arg |-> << >>, ret |-> RetNone, raised |-> "",
                stmts |-> 0, err |-> "", calls |-> << >>]
    /\ UNCHANGED <<connOpen, tableExists, committed, working, inTx,
                   schema, handles>>

\* DatabaseManager.connect: sqlite3.connect opens a connection and self.conn
\* and self.cursor are set to it, whatever they held
Connect ==
    /\ handles.opened <= MaxHandles
    /\ handles' = [opened |-> handles.opened + 1,
                   open |-> handles.open \cup {handles.opened + 1}]
    /\ last' = [op |-> "connect", arg |-> << >>,
                ret |-> RetInt(handles.opened + 1), raised |-> "",
                stmts |-> 0, err |-> "", calls |-> << >>]
    /\ UNCHANGED <<connOpen, tableExists, committed, working, inTx, clock,
                   schema>>

\* DatabaseManager.close: self.cursor and self.conn are closed; what was
\* not committed on that connection is gone
Close ==
    LET held == handles.opened
    IN  /\ held \in handles.open
        /\ handles' = [handles EXCEPT !.open = @ \ {held}]
        /\ connOpen' = IF held = RepoHandle THEN FALSE ELSE connOpen
        /\ working' = IF held = RepoHandle THEN committed ELSE working
        /\ inTx' = IF held = RepoHandle THEN FALSE ELSE inTx
        /\ last' = [op |-> "close", arg |-> << >>, ret |-> RetNone,
                    raised |-> "", stmts |-> 0, err |-> "", calls |-> << >>]
        /\ UNCHANGED <<tableExists, committed, clock, schema>>

CreateTable ==
    LET o == create_table
    IN  /\ committed' = o.committed
        /\ working' = o.working
        /\ inTx' = o.inTx
        /\ tableExists' = (tableExists \/ connOpen)
        /\ schema' = SchemaAfterCreate("tasks", TaskColumnDefs)
        /\ last' = [op |-> "create_table", arg |-> << >>, ret |-> o.ret,
                    raised |-> o.raised, stmts |-> o.stmts, err |-> o.err,
                    calls |-> << >>]
        /\ UNCHANGED <<connOpen, clock, handles>>

\* the tables and the column definitions handed to TableManager.create_table
TableNames == {"tasks", "other"}
ColumnDefsFor(table_name) ==
    IF table_name = "tasks" THEN {TaskColumnDefs}
    ELSE {<< >>,
          <<Column("id", "INTEGER", 0, NULL, 1)>>,
          <<Column("id", "INTEGER", 0, NULL, 1),
            Column("note", "TEXT", 1, NULL, 0)>>}

\* caller code between two repository calls giving up its work:
\* conn.rollback() on the connection the repository uses
CallerRollback ==
    Do("rollback", << >>,
       IF connOpen THEN Returns(rollback(Conn), RetNone, 0)
       ELSE Raises(Conn, "ProgrammingError", 0),
       << >>)

\* TableManager.create_table(table_name, columns)
TmCreateTable ==
    \E table_name \in TableNames :
      \E columns \in ColumnDefsFor(table_name) :
        LET o == TableManager_create_table(table_name, columns)
        IN  /\ committed' = o.committed
            /\ working' = o.working
            /\ inTx' = o.inTx
            /\ schema' = SchemaAfterCreate(table_name, columns)
            /\ tableExists' = (tableExists \/ (connOpen /\ table_name = "tasks"))
            /\ last' = [op |-> "TableManager.create_table",
                        arg |-> [table_name |-> table_name, columns |-> columns],
                        ret |-> o.ret, raised |-> o.raised, stmts |-> o.stmts,
                        err |-> o.err, calls |-> << >>]
            /\ UNCHANGED <<connOpen, clock, handles>>

\* a call of Task.from_row(row): the entity, or the fault of the constructor
from_row_call(row) ==
    LET e == TaskInitError(row)
    IN  IF e # "" THEN Raises(Conn, e, 0)
        ELSE Returns(Conn, RetTask(from_row(row, clock)), 0)

\* the column lists of the SELECT statements whose rows are mapped: every
\* column, or some of those the constructor treats specially
SelectLists ==
    ((SUBSET {"task_id", "title", "priority", "is_completed", "created_at"})
        \ {{}})
    \cup {Columns}

\* Task.from_row on a row of "SELECT <cols> FROM tasks WHERE task_id = id"
FromRow ==
    \E id \in DOMAIN working.rows :
      \E cols \in SelectLists :
        LET row == [c \in cols |-> SelectedRow(working, id)[c]]
        IN  Do("from_row", [row |-> row], from_row_call(row), << >>)

\* TableManager.get_table_info(table_name)
GetTableInfo ==
    \E table_name \in TableNames :
        Do("get_table_info", [table_name |-> table_name],
           get_table_info(table_name), << >>)

\* repository.insert(t) for an entity of S
Insert(S) ==
    \E t \in S : Do("insert", [task |-> t], insert(t), << >>)

\* repository.update(t) and repository.delete(t.task_id) for the entity t
\* that the insert just before was given
UpdateInserted ==
    /\ last.op = "insert"
    /\ last.ret.kind = "int"
    /\ LET t == entity_after_insert(last.arg.task)
       IN  Do("update", [task |-> t], update(t), << >>)

DeleteInserted ==
    /\ last.op = "insert"
    /\ last.ret.kind = "int"
    /\ LET t == entity_after_insert(last.arg.task)
       IN  Do("delete", [task_id |-> t.task_id], delete(t.task_id), << >>)

\* repository.insert_many(ts) for a list over S
InsertMany(S) ==
    \E ts \in SeqsUpTo(S, MaxBatch) :
        Do("insert_many", [tasks |-> ts], insert_many(ts), << >>)

\* repository.update(t) for an entity of S given any identity or none
Update(S) ==
    \E t \in S, id \in {NoId} \cup Ids :
        LET task == [t EXCEPT !.task_id = id]
        IN  Do("update", [task |-> task], update(task), << >>)

Delete ==
    \E id \in Ids : Do("delete", [task_id |-> id], delete(id), << >>)

FindById ==
    \E id \in Ids : Do("find_by_id", [task_id |-> id], find_by_id(id), << >>)

FindAll == Do("find_all", << >>, find_all, << >>)

Criteria ==
    {<< >>, [priority |-> 3], [is_completed |-> 1], [description |-> NULL],
     [priority |-> 10, is_completed |-> 0], [nope |-> 1],
     [priority |-> 3, description |-> NULL]}

FindByCriteria ==
    \E criteria \in Criteria :
        Do("find_by_criteria", [criteria |-> criteria],
           find_by_criteria(criteria), << >>)

FindByTitleContains ==
    \E part \in {"", "a", "b"} :
        Do("find_by_title_contains", [title_part |-> part],
           find_by_title_contains(part), << >>)

CreateTask ==
    \E title \in Titles, priority \in Priorities, due_date \in Dates :
        LET r == create_task(title, NULL, priority, due_date, FALSE, NULL)
        IN  Do("create_task",
               [title |-> title, priority |-> priority, due_date |-> due_date],
               r.out, r.calls)

CreateTasksBatch ==
    \E items \in SeqsUpTo(BatchItems, MaxBatch + 1) :
        LET r == create_tasks_batch(items)
        IN  Do("create_tasks_batch", [task_data_list |-> items], r.out, r.calls)

\* the keyword arguments given to update_task: none, a field, two fields,
\* an empty title, the identity, a name Task does not have
UpdateFields ==
    {<< >>, [title |-> "c"], [title |-> ""],
     [priority |-> 1, is_completed |-> TRUE],
     [task_id |-> 2], [nope |-> 1]}

UpdateTask ==
    \E id \in Ids, kwargs \in UpdateFields :
        LET r == update_task(id, kwargs)
        IN  Do("update_task", [task_id |-> id, kwargs |-> kwargs], r.out, r.calls)

CompleteTask ==
    \E id \in Ids :
        LET r == complete_task(id)
        IN  Do("complete_task",
               [task_id |-> id, kwargs |-> [is_completed |-> TRUE]],
               r.out, r.calls)

GetOverdueTasks ==
    LET r == get_overdue_tasks
    IN  Do("get_overdue_tasks", << >>, r.out, r.calls)

DeleteTask ==
    \E id \in Ids :
        LET r == delete_task(id)
        IN  Do("delete_task", [task_id |-> id], r.out, r.calls)

GetTask ==
    \E id \in Ids :
        LET r == get_task(id)
        IN  Do("get_task", [task_id |-> id], r.out, r.calls)

GetAllTasks ==
    LET r == get_all_tasks
    IN  Do("get_all_tasks", << >>, r.out, r.calls)

\* the spans asked for
Days == {0, 1}

GetTasksDueWithinDays ==
    \E days \in Days :
        LET r == get_tasks_due_within_days(days)
        IN  Do("get_tasks_due_within_days", [days |-> days], r.out, r.calls)

\* entities with and without a due date, around the first days of the clock
DatedTasks ==
    {NewTask("a", DefaultPriority, FALSE, {}),
     [NewTask("b", DefaultPriority, FALSE, {}) EXCEPT !.due_date = <<2024, 1, 31>>],
     [NewTask("c", DefaultPriority, FALSE, {}) EXCEPT !.due_date = <<2024, 2, 1>>],
     [NewTask("d", 1, TRUE, {}) EXCEPT !.due_date = <<2024, 1, 31>>]}

\* the repository used directly, while time passes and until the connection
\* is closed under it
Next ==
    \/ Tick
    \/ Close
    \/ CreateTable
    \/ Insert(FewTasks)
    \/ Update(FewTasks)
    \/ Delete
    \/ FindById
    \/ FindAll
    \/ FindByCriteria
    \/ FindByTitleContains

Spec == Init /\ [][Next]_vars

\* the mutating operations, single and batched, on a connection that may be
\* closed under them
NextBatch ==
    \/ Close
    \/ CreateTable
    \/ Insert(FewTasks)
    \/ InsertMany(FewTasks)
    \/ Update(FewTasks)
    \/ Delete
    \/ FindAll

SpecBatch == Init /\ [][NextBatch]_vars

\* entities of every shape inserted, at any time of day
NextRoundTrip ==
    \/ CreateTable
    \/ Insert(RepoTasks)

\* the program started at any time
InitAnyTime ==
    /\ connOpen = TRUE
    /\ tableExists = FALSE
    /\ committed = EmptyDb
    /\ working = EmptyDb
    /\ inTx = FALSE
    /\ clock \in 1..(MaxClock + 1)
    /\ last = [op |-> "init", arg |-> << >>, ret |-> RetNone, raised |-> "",
               stmts |-> 0, err |-> "", calls |-> << >>]
    /\ schema = << >>
    /\ handles = [opened |-> 1, open |-> {RepoHandle}]

SpecRoundTrip == InitAnyTime /\ [][NextRoundTrip]_vars

\* the service over the repository
NextService ==
    \/ CreateTable
    \/ CreateTask
    \/ CreateTasksBatch
    \/ Delete
    \/ UpdateTask
    \/ CompleteTask

SpecService == Init /\ [][NextService]_vars

\* the service's updates and date queries over rows the repository stored,
\* while the days pass
NextTasks ==
    \/ Tick
    \/ CreateTable
    \/ Insert(DatedTasks)
    \/ UpdateTask
    \/ CompleteTask
    \/ GetOverdueTasks
    \/ GetTasksDueWithinDays

SpecTasks == Init /\ [][NextTasks]_vars

\* tables created and created again, through the repository and through
\* the table manager, with rows stored in between
NextSchema ==
    \/ CreateTable
    \/ TmCreateTable
    \/ GetTableInfo
    \/ Insert(FewTasks)
    \/ Close

SpecSchema == Init /\ [][NextSchema]_vars

\* connect called again on the same DatabaseManager, the repository working
\* on the connection it was constructed with
NextConnect ==
    \/ Connect
    \/ Close
    \/ CreateTable
    \/ Insert(FewTasks)
    \/ Delete
    \/ FindAll

SpecConnect == Init /\ [][NextConnect]_vars

\* entities that carry a last_updated of their own: as fetched at the first
\* tick of the clock, or as set by the caller
StampedTasks ==
    {[NewTask("a", DefaultPriority, FALSE, {}) EXCEPT !.last_updated = 1],
     [NewTask("b", 1, TRUE, {"description"}) EXCEPT !.last_updated = 1],
     NewTask("c", DefaultPriority, FALSE, {})}

\* rows updated, later than they were stored, from entities that carry a
\* last_updated
NextStamp ==
    \/ CreateTable
    \/ Tick
    \/ Insert(FewTasks)
    \/ Update(StampedTasks)
    \/ UpdateTask
    \/ CompleteTask

SpecStamp == Init /\ [][NextStamp]_vars

\* entities inserted and then written or removed through the same object
NextIdentity ==
    \/ CreateTable
    \/ Tick
    \/ Insert(FewTasks)
    \/ UpdateInserted
    \/ DeleteInserted
    \/ FindAll

SpecIdentity == Init /\ [][NextIdentity]_vars

\* a caller composing several repository calls on one connection, rolling
\* back or closing in between
NextTransactions ==
    \/ CreateTable
    \/ Insert(FewTasks)
    \/ InsertMany(FewTasks)
    \/ Update(FewTasks)
    \/ Delete
    \/ CallerRollback
    \/ Close

SpecTransactions == Init /\ [][NextTransactions]_vars

\* the service as a facade: every method that hands work to the repository
NextFacade ==
    \/ CreateTable
    \/ Insert(FewTasks)
    \/ CreateTask
    \/ UpdateTask
    \/ CompleteTask
    \/ DeleteTask
    \/ GetTask
    \/ GetAllTasks
    \/ GetOverdueTasks
    \/ GetTasksDueWithinDays

SpecFacade == Init /\ [][NextFacade]_vars

\* rows stored, then read back column by column and mapped to entities
NextFromRow ==
    \/ CreateTable
    \/ Tick
    \/ Insert(FewTasks)
    \/ FromRow

SpecFromRow == Init /\ [][NextFromRow]_vars

\* ---------------------------------------------------------------- the claims

\* the fields a fetched entity shares with the entity that was inserted
RoundTripFields == {"title", "description", "priority", "due_date",
                    "is_completed", "attachment", "created_at"}

\* C1: whenever insert(e) has returned an identity i, find_by_id(i) returns
\* an entity whose title, description, priority, due_date, is_completed,
\* attachment and created_at are those of e.
C1_RoundTrip ==
    (last.op = "insert" /\ last.ret.kind = "int") =>
        LET fetched == find_by_id(last.ret.n)
        IN  /\ fetched.raised = ""
            /\ fetched.ret.kind = "task"
            /\ \A f \in RoundTripFields :
                 fetched.ret.l[1][f] = last.arg.task[f]

\* an entity with some optional fields set and others not, done, constructed
\* before it was inserted, has been inserted and can be fetched
C1_Witness ==
    /\ last.op = "insert"
    /\ last.ret.kind = "int"
    /\ last.arg.task.is_completed
    /\ last.arg.task.description # NULL
    /\ last.arg.task.attachment = NULL
    /\ last.arg.task.created_at # clock
    /\ find_by_id(last.ret.n).ret.kind = "task"

\* the repository's operations and the value each returns on failure
RepoOps == {"insert", "insert_many", "update", "delete", "find_by_id",
            "find_all", "find_by_criteria", "find_by_title_contains"}
FailureValue(op) ==
    CASE op \in {"insert", "insert_many", "find_by_id"} -> RetNone
      [] op \in {"update", "delete"}                     -> RetBool(FALSE)
      [] OTHER                                           -> RetList(<< >>)

\* C2: whenever a statement issued by a repository operation fails with a
\* store-level error, the operation raises nothing and returns its failure
\* value: none, false or the empty list.
C2_NoStoreErrorEscapes ==
    (last.op \in RepoOps /\ last.err # "") =>
        /\ last.raised = ""
        /\ last.ret = FailureValue(last.op)

Mutators == {"insert", "insert_many", "update", "delete"}

\* whether the returned value is the operation's failure value
Failed(l) == l.ret = FailureValue(l.op)

\* C3: when a mutating repository operation returns, the connection has no
\* open transaction and its view is what is committed; if it returned its
\* failure value the table is what it was before the call.
C3_NoOpenTransaction ==
    [][(last'.op \in Mutators /\ last'.raised = "") =>
          /\ ~inTx'
          /\ working' = committed'
          /\ (Failed(last') => (committed' = committed /\ working' = working))]_vars

\* a batch whose second entity the store rejected, after its first was
\* written, has been rolled back, while earlier rows stay committed
C3_Witness ==
    /\ last.op = "insert_many"
    /\ last.err = "IntegrityError"
    /\ Len(last.arg.tasks) = 2
    /\ last.arg.tasks[1].title # NULL
    /\ last.ret = RetNone
    /\ committed.rows # << >>

\* C4: create_task with an empty title returns none, calls no repository
\* method, issues no statement and leaves the table as it was, whatever the
\* priority and the due date.
C4_EmptyTitleRejected ==
    [][(last'.op = "create_task" /\ last'.arg.title = "") =>
          /\ last'.raised = ""
          /\ last'.ret = RetNone
          /\ last'.calls = << >>
          /\ last'.stmts = 0
          /\ committed' = committed
          /\ working' = working]_vars

\* create_task was called with an empty title, a priority out of range and
\* a date that does not parse
C4_Witness ==
    /\ last.op = "create_task"
    /\ last.arg.title = ""
    /\ last.arg.priority = 10
    /\ last.arg.due_date = <<2024, 13, 40>>
    /\ last.ret = RetNone
    /\ tableExists

\* C5: create_task with a non-empty title (on a working store) raises
\* nothing and returns the identity of a row it inserted, whose priority is
\* the one given if in 1..5 and 3 otherwise, and whose due_date is the one
\* given if it is a calendar date and unset otherwise.
C5_CreateNeverRejects ==
    (last.op = "create_task" /\ last.arg.title \notin {"", NULL}
        /\ connOpen /\ tableExists) =>
        /\ last.raised = ""
        /\ last.ret.kind = "int"
        /\ last.ret.n \in DOMAIN committed.rows
        /\ committed.rows[last.ret.n].priority =
             (IF last.arg.priority \in 1..5 THEN last.arg.priority ELSE 3)
        /\ committed.rows[last.ret.n].due_date =
             (IF last.arg.due_date = <<2024, 13, 40>> THEN NoDate
              ELSE last.arg.due_date)

\* C6: every stored row has a priority in 1..5 (in the behaviours where rows
\* are only created through the service).
C6_StoredPriorityInRange ==
    \A i \in DOMAIN committed.rows : committed.rows[i].priority \in 1..5

\* whether a create_tasks_batch item has a non-empty title
HasTitle(item) == "title" \in DOMAIN item /\ item.title \notin {"", NULL}

\* C7: create_tasks_batch (on a working store) skips the items without a
\* title, hands the others, in order, to one insert_many call, and returns
\* their number; the table grows by as many rows.
C7_BatchSkipsUntitled ==
    [][(last'.op = "create_tasks_batch" /\ connOpen /\ tableExists) =>
          LET items == last'.arg.task_data_list
              valid == SelectSeq(items, HasTitle)
          IN  /\ last'.raised = ""
              /\ last'.ret = RetInt(Len(valid))
              /\ Len(last'.calls) = (IF valid = << >> THEN 0 ELSE 1)
              /\ \A c \in 1..Len(last'.calls) :
                    /\ last'.calls[c].method = "insert_many"
                    /\ Len(last'.calls[c].arg) = Len(valid)
                    /\ \A i \in 1..Len(valid) :
                          last'.calls[c].arg[i].title = valid[i].title
              /\ Cardinality(DOMAIN committed'.rows)
                   = Cardinality(DOMAIN committed.rows) + Len(valid)]_vars

\* a batch of two items with a title and one with an empty title, in the
\* middle, has been created: two rows
C7_Witness ==
    /\ last.op = "create_tasks_batch"
    /\ Len(last.arg.task_data_list) = 3
    /\ last.arg.task_data_list[2] = [title |-> ""]
    /\ HasTitle(last.arg.task_data_list[1])
    /\ HasTitle(last.arg.task_data_list[3])
    /\ last.ret = RetInt(2)
    /\ Cardinality(DOMAIN committed.rows) = 2

\* C8 as claimed: update returns true exactly when the entity's identity is
\* set and matches an existing row.
C8_TrueExactlyWhenMatched ==
    (last.op = "update" /\ connOpen) =>
        (last.ret = RetBool(TRUE) <=>
            /\ last.arg.task.task_id # NoId
            /\ last.arg.task.task_id \in DOMAIN committed.rows)

\* C8, amended: on an open connection update raises nothing and returns
\* true exactly when the entity's identity is set, matches an existing row
\* and the entity's title is not null (the store accepts the write); with an
\* unset identity it issues no statement; when it returns false no row has
\* changed.
C8_UpdateResult ==
    [][(last'.op = "update" /\ connOpen) =>
          LET t == last'.arg.task
              matched == /\ t.task_id # NoId
                         /\ tableExists
                         /\ t.task_id \in DOMAIN committed.rows
          IN  /\ last'.raised = ""
              /\ last'.ret = RetBool(matched /\ t.title # NULL)
              /\ (t.task_id = NoId => last'.stmts = 0)
              /\ (~last'.ret.b => committed' = committed /\ working' = working)]_vars

\* after an update that returned true, an update with an identity no row
\* has returned false
C8_Witness ==
    /\ last.op = "update"
    /\ last.ret = RetBool(FALSE)
    /\ last.arg.task.task_id = MaxId + 1
    /\ last.arg.task.title # NULL
    /\ committed.rows # << >>
    /\ \E i \in DOMAIN committed.rows : committed.rows[i].last_updated # NoTime

\* C9: an update of the row with identity a leaves every other row as it
\* was, its last_updated included.
C9_UpdateTouchesOneRow ==
    [][last'.op = "update" =>
          \A b \in DOMAIN committed.rows :
              b # last'.arg.task.task_id =>
                  /\ b \in DOMAIN committed'.rows
                  /\ committed'.rows[b] = committed.rows[b]]_vars

\* one of two rows has been updated, at a time later than the other row's
\* creation
C9_Witness ==
    /\ last.op = "update"
    /\ last.ret = RetBool(TRUE)
    /\ Cardinality(DOMAIN committed.rows) = 2
    /\ \E a, b \in DOMAIN committed.rows :
          /\ a = last.arg.task.task_id
          /\ b # a
          /\ committed.rows[a].last_updated = clock
          /\ committed.rows[b].last_updated # clock

\* C10: on an open connection delete raises nothing; it returns false for an
\* identity no row has, and true for the identity of a row, after which
\* find_by_id of it returns none and another delete of it returns false.
C10_DeleteThenGone ==
    [][\A id \in Ids :
          (last'.op = "delete" /\ last'.arg.task_id = id /\ connOpen) =>
              LET existed == tableExists /\ id \in DOMAIN committed.rows
              IN  /\ last'.raised = ""
                  /\ last'.ret = RetBool(existed)
                  /\ existed => /\ find_by_id(id)'.ret = RetNone
                                /\ delete(id)'.ret = RetBool(FALSE)
                                /\ delete(id)'.raised = ""]_vars

\* a row has been deleted while another one stays
C10_Witness ==
    /\ last.op = "delete"
    /\ last.ret = RetBool(TRUE)
    /\ committed.rows # << >>
    /\ last.arg.task_id \notin DOMAIN committed.rows

\* the elements of a list
Range(l) == {l[i] : i \in 1..Len(l)}

\* C11: find_by_criteria with an empty mapping raises nothing and returns
\* the entities find_all returns, whatever the table holds.
C11_EmptyCriteriaIsFindAll ==
    (last.op = "find_by_criteria" /\ DOMAIN last.arg.criteria = {}) =>
        /\ last.raised = ""
        /\ last.ret.kind = "list"
        /\ Range(last.ret.l) = Range(find_all.ret.l)
        /\ (connOpen /\ tableExists) =>
              Len(last.ret.l) = Cardinality(DOMAIN committed.rows)

\* find_by_criteria with an empty mapping has returned two entities
C11_Witness ==
    /\ last.op = "find_by_criteria"
    /\ DOMAIN last.arg.criteria = {}
    /\ Len(last.ret.l) = 2

\* the stored rows whose value in every column the mapping names is the
\* value it gives
RowsEqualTo(criteria) ==
    {i \in DOMAIN committed.rows :
        \A c \in DOMAIN criteria : SelectedRow(committed, i)[c] = criteria[c]}

\* C12: on an open connection, find_by_criteria with a non-empty mapping of
\* columns to values that are set returns exactly the entities of the rows
\* that agree with the mapping in every column it names.
C12_CriteriaConjunction ==
    (/\ last.op = "find_by_criteria"
     /\ connOpen /\ tableExists
     /\ DOMAIN last.arg.criteria # {}
     /\ DOMAIN last.arg.criteria \subseteq Columns
     /\ \A c \in DOMAIN last.arg.criteria : ~IsNone(c, last.arg.criteria[c])) =>
        /\ last.raised = ""
        /\ last.ret.kind = "list"
        /\ Len(last.ret.l) = Cardinality(RowsEqualTo(last.arg.criteria))
        /\ Range(last.ret.l) =
             {from_row(SelectedRow(committed, i), clock) :
                 i \in RowsEqualTo(last.arg.criteria)}

\* a mapping of two columns has returned nothing although one row agrees
\* with it in the first column and another in the second
C12_Witness ==
    /\ last.op = "find_by_criteria"
    /\ last.arg.criteria = [priority |-> 10, is_completed |-> 0]
    /\ last.ret = RetList(<< >>)
    /\ \E i \in DOMAIN committed.rows : committed.rows[i].priority = 10
    /\ \E i \in DOMAIN committed.rows : committed.rows[i].is_completed = 0

\* the operations that build a statement from what the caller gives
QueryOps == {"insert", "insert_many", "update", "delete", "find_by_id",
             "find_by_criteria", "find_by_title_contains"}

\* how much caller data a call carries: the number of criteria of a
\* find_by_criteria call
Shape(op, arg) ==
    IF op = "find_by_criteria" THEN Cardinality(DOMAIN arg.criteria) ELSE 0

\* C13: two calls of the same query-building operation that differ only in
\* caller data (field values, criteria keys and values, the title part)
\* hand the same statement text to the store.
C13_StatementTextFixed ==
    [][(/\ last.op \in QueryOps
        /\ last'.op = last.op
        /\ Shape(last'.op, last'.arg) = Shape(last.op, last.arg)
        /\ Statement(last.op, last.arg) # ""
        /\ Statement(last'.op, last'.arg) # "") =>
            Statement(last'.op, last'.arg) = Statement(last.op, last.arg)]_vars

\* C14: on an open connection with the table there, insert_many of an empty
\* list returns 0 and issues no statement; of a list with an entity the
\* store rejects (a null title) returns none and leaves the table as it
\* was, nothing pending; of any other list returns its length, and the
\* table has one new row for each entity, in order, the old rows unchanged.
C14_BatchAllOrNothing ==
    [][(last'.op = "insert_many" /\ connOpen /\ tableExists) =>
          LET ts == last'.arg.tasks
              n == Len(ts)
              seq == committed.seq
          IN  /\ last'.raised = ""
              /\ ~inTx'
              /\ working' = committed'
              /\ IF n = 0
                    THEN /\ last'.ret = RetInt(0)
                         /\ last'.stmts = 0
                         /\ committed' = committed
                  ELSE IF \E i \in 1..n : ts[i].title = NULL
                    THEN /\ last'.ret = RetNone
                         /\ committed' = committed
                  ELSE /\ last'.ret = RetInt(n)
                       /\ DOMAIN committed'.rows =
                            DOMAIN committed.rows \cup (seq + 1)..(seq + n)
                       /\ \A i \in DOMAIN committed.rows :
                            committed'.rows[i] = committed.rows[i]
                       /\ \A i \in 1..n :
                            /\ committed'.rows[seq + i].title = ts[i].title
                            /\ committed'.rows[seq + i].priority = ts[i].priority
                            /\ committed'.rows[seq + i].due_date = ts[i].due_date]_vars

\* a batch whose last entity the store rejected has returned none, and the
\* table still holds the one row it held
C14_Witness ==
    /\ last.op = "insert_many"
    /\ Len(last.arg.tasks) = 2
    /\ last.arg.tasks[1].title # NULL
    /\ last.arg.tasks[2].title = NULL
    /\ last.ret = RetNone
    /\ Cardinality(DOMAIN committed.rows) = 1
    /\ committed.seq = 1

\* C15: no step changes the created_at of a stored row, and an entity
\* fetched by identity carries the created_at its row stores.
C15_CreatedAtNeverChanges ==
    [][/\ \A i \in DOMAIN committed.rows \cap DOMAIN committed'.rows :
             committed'.rows[i].created_at = committed.rows[i].created_at
       /\ (last'.op = "find_by_id" /\ last'.ret.kind = "task") =>
             last'.ret.l[1].created_at =
                 committed.rows[last'.arg.task_id].created_at]_vars

\* C16: update_task(i, ...) and complete_task(i) leave the set of
\* identities as it was and every row whose identity is not i unchanged.
C16_UpdateTaskKeepsIdentity ==
    [][last'.op \in {"update_task", "complete_task"} =>
          /\ DOMAIN committed'.rows = DOMAIN committed.rows
          /\ \A j \in DOMAIN committed.rows :
                j # last'.arg.task_id => committed'.rows[j] = committed.rows[j]]_vars

\* update_task has been called for one stored row with the identity of
\* another stored row among the fields to set
C16_Witness ==
    /\ last.op = "update_task"
    /\ "task_id" \in DOMAIN last.arg.kwargs
    /\ last.arg.kwargs.task_id # last.arg.task_id
    /\ last.arg.task_id \in DOMAIN committed.rows
    /\ last.arg.kwargs.task_id \in DOMAIN committed.rows
    /\ clock > 1

\* a value as its column stores it
StoredValue(c, v) == IF c = "is_completed" THEN (IF v THEN 1 ELSE 0) ELSE v

\* C17: update_task(i, fields) on a working store raises nothing; when row
\* i exists, each schema field named holds its new value afterwards and
\* every other field but last_updated is as it was; when no row has
\* identity i it returns false and does not call the repository's update.
C17_UpdateTaskSetsNamedFields ==
    [][(last'.op = "update_task" /\ connOpen /\ tableExists) =>
          LET i == last'.arg.task_id
              kw == last'.arg.kwargs
          IN  /\ last'.raised = ""
              /\ IF i \in DOMAIN committed.rows
                    THEN /\ i \in DOMAIN committed'.rows
                         /\ \A c \in Columns \ {"task_id", "last_updated"} :
                               committed'.rows[i][c] =
                                  IF c \in DOMAIN kw THEN StoredValue(c, kw[c])
                                  ELSE committed.rows[i][c]
                    ELSE /\ last'.ret = RetBool(FALSE)
                         /\ \A k \in 1..Len(last'.calls) :
                               last'.calls[k].method
                                  \notin {"update", "update_task"}
                         /\ committed' = committed]_vars

\* the entities of the stored rows whose identity is in ids
EntitiesOf(ids) == {from_row(SelectedRow(committed, i), clock) : i \in ids}

\* C18: get_overdue_tasks on a working store raises nothing and returns
\* exactly the entities whose due_date is set and earlier than today and
\* which are not completed.
C18_OverdueExactly ==
    (last.op = "get_overdue_tasks" /\ connOpen /\ tableExists) =>
        /\ last.raised = ""
        /\ last.ret.kind = "list"
        /\ Range(last.ret.l) =
             EntitiesOf({i \in DOMAIN committed.rows :
                            /\ committed.rows[i].due_date # NoDate
                            /\ DateLess(committed.rows[i].due_date, DateOf(clock))
                            /\ committed.rows[i].is_completed = 0})

\* C19: get_tasks_due_within_days(n) on a working store raises nothing and
\* returns exactly the entities whose due_date d is set and satisfies
\* today <= d <= today + n.
C19_DueWithinDaysExactly ==
    (last.op = "get_tasks_due_within_days" /\ connOpen /\ tableExists) =>
        /\ last.raised = ""
        /\ last.ret.kind = "list"
        /\ Range(last.ret.l) =
             EntitiesOf({i \in DOMAIN committed.rows :
                            LET d == committed.rows[i].due_date
                                today == DateOf(clock)
                            IN  /\ d # NoDate
                                /\ ~DateLess(d, today)
                                /\ ~DateLess(AddDays(today, last.arg.days), d)})

\* C20: every stored row has a title that is neither null nor empty (in the
\* behaviours where rows are written through the service only).
C20_StoredTitleNonEmpty ==
    \A i \in DOMAIN committed.rows : committed.rows[i].title \notin {NULL, ""}

\* update_task has been asked to set the title of a stored row to the empty
\* string
C20_Witness ==
    /\ last.op = "update_task"
    /\ last.arg.kwargs = [title |-> ""]
    /\ last.arg.task_id \in DOMAIN committed.rows

\* C21: on an open connection, a create_table (of the repository or of the
\* table manager) for a table that is already there with the identical
\* column definitions returns true, and leaves what get_table_info reports
\* for the table and the rows stored as they were.
C21_CreateTableIdempotent ==
    [][\A t \in TableNames :
         ( /\ connOpen
           /\ t \in DOMAIN schema
           /\ \/ /\ last'.op = "create_table"
                 /\ t = "tasks"
                 /\ schema[t] = TaskColumnDefs
              \/ /\ last'.op = "TableManager.create_table"
                 /\ last'.arg.table_name = t
                 /\ last'.arg.columns = schema[t] )
         => /\ last'.ret = RetBool(TRUE)
            /\ last'.raised = ""
            /\ get_table_info(t)'.ret = get_table_info(t).ret
            /\ committed'.rows = committed.rows
            /\ working'.rows = working.rows]_vars

\* the tasks table has been created again while it held a row
C21_Witness ==
    /\ \/ last.op = "create_table"
       \/ /\ last.op = "TableManager.create_table"
          /\ last.arg.table_name = "tasks"
    /\ last.ret = RetBool(TRUE)
    /\ "tasks" \in DOMAIN schema
    /\ schema["tasks"] = TaskColumnDefs
    /\ DOMAIN committed.rows # {}
    /\ Len(get_table_info("tasks").ret.l) = 9

\* C22: connect is idempotent per DatabaseManager: after a close() no
\* connection opened through that manager remains open.
C22_CloseClosesEveryHandle ==
    last.op = "close" => handles.open = {}

\* the value from_row gives a field: the row's value when the row has the
\* key (is_completed through bool()), the field's default otherwise
FieldFromRow(row, f) ==
    IF f \in DOMAIN row
      THEN (IF f = "is_completed" THEN row[f] # 0 ELSE row[f])
    ELSE IF f = "created_at" THEN clock
    ELSE FieldDefault(f)

\* C23: from_row on a named-field row with any subset of the task columns
\* raises no fault and builds an entity in which each field is the row's
\* value, or the field's default when the key is missing, with is_completed
\* a boolean.
C23_FromRowToleratesMissingKeys ==
    last.op = "from_row" =>
        /\ last.raised = ""
        /\ last.ret.kind = "task"
        /\ \A f \in Fields :
             last.ret.l[1][f] = FieldFromRow(last.arg.row, f)
        /\ last.ret.l[1].is_completed \in BOOLEAN

\* the service methods that delegate to the repository
FacadeOps == {"create_task", "update_task", "complete_task", "delete_task",
              "get_task", "get_all_tasks", "get_overdue_tasks",
              "get_tasks_due_within_days"}

\* C24: every repository method these service methods call is one that
\* TaskRepository defines, and none of the service calls ends in a
\* missing-operation fault.
C24_ServiceCallsDefinedOperations ==
    last.op \in FacadeOps =>
        /\ \A i \in DOMAIN last.calls : last.calls[i].method \in RepoMethods
        /\ last.raised # "AttributeError"

C26_ClosedConnectionFailsQuietly ==
    (last.op \in RepoOps /\ ~connOpen) =>
        /\ last.raised = ""
        /\ \/ last.ret = FailureValue(last.op)
           \/ /\ last.op = "insert_many"
              /\ last.arg.tasks = << >>
              /\ last.ret = RetInt(0)

\* C27: after a successful update (of the repository, or through
\* update_task or complete_task) the row's stored last_updated is the
\* store's time at the update, whatever last_updated the entity carried.
C27_UpdateStampsStoreTime ==
    ( /\ last.op \in {"update", "update_task", "complete_task"}
      /\ last.ret = RetBool(TRUE) ) =>
        LET id == IF last.op = "update" THEN last.arg.task.task_id
                  ELSE last.arg.task_id
        IN  /\ id \in DOMAIN committed.rows
            /\ committed.rows[id].last_updated = clock

\* a row has been updated from an entity that carried an earlier
\* last_updated
C27_Witness ==
    /\ last.op = "update"
    /\ last.ret = RetBool(TRUE)
    /\ last.arg.task.last_updated \notin {NoTime, clock}
    /\ committed.rows[last.arg.task.task_id].last_updated = clock

\* C28: when insert has returned an identity, the entity it was given
\* carries that identity, so an update of that entity right after returns
\* true and a delete by the entity's task_id removes the inserted row.
C28_InsertSetsEntityIdentity ==
    [][(last.op = "insert" /\ last.ret.kind = "int") =>
          LET t == entity_after_insert(last.arg.task)
          IN  /\ t.task_id = last.ret.n
              /\ (last'.op = "update" /\ last'.arg.task = t) =>
                    last'.ret = RetBool(TRUE)
              /\ (last'.op = "delete" /\ last'.arg.task_id = t.task_id) =>
                    /\ last'.ret = RetBool(TRUE)
                    /\ last.ret.n \notin DOMAIN committed'.rows]_vars

\* C29: find_by_criteria with a none value for some column raises nothing
\* and returns no row, also when rows exist in which that column is unset.
C29_NoneCriterionMatchesNothing ==
    ( /\ last.op = "find_by_criteria"
      /\ \E c \in DOMAIN last.arg.criteria \cap Columns :
            IsNone(c, last.arg.criteria[c]) ) =>
        /\ last.raised = ""
        /\ last.ret = RetList(<< >>)

\* rows with an unset description, one of them of priority 3, were stored
\* and open to the query for priority 3 and no description
C29_Witness ==
    /\ last.op = "find_by_criteria"
    /\ last.arg.criteria = [priority |-> 3, description |-> NULL]
    /\ connOpen
    /\ last.err = ""
    /\ \E i \in DOMAIN committed.rows :
          /\ committed.rows[i].description = NULL
          /\ committed.rows[i].priority = 3
    /\ last.ret = RetList(<< >>)

\* the keys of an entity's field map once task_id is removed
KeysWithoutId(t) == DOMAIN StripId(to_dict(t))

\* C30: whatever fields of an entity are set, its field map without task_id
\* has the eight keys title, priority, is_completed, due_date, attachment,
\* created_at, description, last_updated; so in every insert_many batch each
\* entity's keys are those of the first.
C30_FieldMapKeysUniform ==
    /\ last.op \in {"insert", "update"} =>
          KeysWithoutId(last.arg.task) = Fields \ {"task_id"}
    /\ last.op = "insert_many" =>
          \A i \in DOMAIN last.arg.tasks :
             /\ KeysWithoutId(last.arg.tasks[i]) = Fields \ {"task_id"}
             /\ KeysWithoutId(last.arg.tasks[i]) =
                    KeysWithoutId(last.arg.tasks[1])

\* a batch of an entity with no optional field set and one with all of
\* them set has been stored
C30_Witness ==
    /\ last.op = "insert_many"
    /\ last.ret = RetInt(2)
    /\ last.arg.tasks[1].description = NULL
    /\ last.arg.tasks[1].due_date = NoDate
    /\ last.arg.tasks[2].description # NULL
    /\ last.arg.tasks[2].due_date # NoDate
    /\ Cardinality(DOMAIN committed.rows) >= 2

====
